---- MODULE Spec2Model ----
(***************************************************************************)
(* QMP structure representation library (rustsbi/qmp).                     *)
(*                                                                         *)
(* The library is a set of data types whose behaviour is fixed by their    *)
(* serde attributes, and three command constructors.  A Rust type is       *)
(* modelled by a descriptor that records, field by field, exactly the      *)
(* attributes written in the source (rename, rename_all,                   *)
(* skip_serializing_if, flatten, untagged); Ser and De interpret a         *)
(* descriptor the way the derived Serialize / Deserialize implementations  *)
(* and serde_json do.                                                      *)
(*                                                                         *)
(* Strings are sequences of one-character strings, so that the kebab-case  *)
(* renaming is computed, not assumed.  JSON object keys, which are always  *)
(* field names fixed by the source, are TLA+ strings.                      *)
(*                                                                         *)
(* Wire texts that are JSON arrays standing for a struct (serde_json       *)
(* accepts them positionally) and the externally tagged object form of a   *)
(* unit variant are not among the messages modelled.                       *)
(***************************************************************************)
EXTENDS Integers, Sequences, FiniteSets, TLC

\* ------------------------------------------------------------------ bounds
\* Largest number used as a u64 value and as a number on the wire.
MaxNum == 1
\* Longest capabilities array of a constructed ServerGreeting.
MaxCaps == 1

\* ------------------------------------------------------------- JSON values
JNull == [k |-> "null"]
JNum(n) == [k |-> "num", n |-> n]
JStr(s) == [k |-> "str", s |-> s]
JArr(a) == [k |-> "arr", a |-> a]
JObj(o) == [k |-> "obj", o |-> o]
EmptyObj == [key \in {} |-> JNull]
HasKey(j, key) == j.k = "obj" /\ key \in DOMAIN j.o
Keys(j) == DOMAIN j.o

\* ------------------------------------------------------------- Rust values
VUnit == [v |-> "unit"]
VU64(n) == [v |-> "u64", n |-> n]
VStr(s) == [v |-> "String", s |-> s]
VNone == [v |-> "None"]
VSome(x) == [v |-> "Some", x |-> x]
VVec(items) == [v |-> "Vec", items |-> items]
VVariant(name) == [v |-> "variant", name |-> name]
VStruct(f) == [v |-> "struct", f |-> f]
VStructVariant(name, f) == [v |-> "struct_variant", name |-> name, f |-> f]

\* -------------------------------------------------------- type descriptors
TUnit == [t |-> "unit"]
TU64 == [t |-> "u64"]
TString == [t |-> "String"]
TOption(T) == [t |-> "Option", of |-> T]
TVec(T) == [t |-> "Vec", of |-> T]
\* A struct field: its Rust name, its key on the wire (the name, or the
\* serde rename), its type, whether it carries
\* skip_serializing_if = "Option::is_none", whether it carries flatten.
Field(rust, wire, ty, skip, flatten) ==
  [rust |-> rust, wire |-> wire, ty |-> ty, skip |-> skip, flatten |-> flatten]

\* ------------------------------------------------------------ kebab-case
UpperChars == <<"A","B","C","D","E","F","G","H","I","J","K","L","M",
                "N","O","P","Q","R","S","T","U","V","W","X","Y","Z">>
LowerChars == <<"a","b","c","d","e","f","g","h","i","j","k","l","m",
                "n","o","p","q","r","s","t","u","v","w","x","y","z">>
IsUppercase(c) == \E i \in 1..Len(UpperChars) : UpperChars[i] = c
ToAsciiLowercase(c) ==
  IF IsUppercase(c)
  THEN LowerChars[CHOOSE i \in 1..Len(UpperChars) : UpperChars[i] = c]
  ELSE c
\* serde's rename rule "kebab-case" applied to a variant identifier: every
\* upper-case letter but the first is preceded by '-', and is lower-cased.
RECURSIVE KebabFrom(_, _)
KebabFrom(s, i) ==
  IF i > Len(s) THEN <<>>
  ELSE (IF IsUppercase(s[i]) /\ i > 1 THEN <<"-">> ELSE <<>>)
       \o <<ToAsciiLowercase(s[i])>> \o KebabFrom(s, i + 1)
KebabCase(s) == KebabFrom(s, 1)

\* ------------------------------------------------- qmp_monitor.rs: types
\* Variant identifiers, as written in the source.
Oob == <<"O","o","b">>
Reset == <<"R","e","s","e","t">>
Shutdown == <<"S","h","u","t","d","o","w","n">>
Poweroff == <<"P","o","w","e","r","o","f","f">>
Pause == <<"P","a","u","s","e">>
Debug == <<"D","e","b","u","g">>
None == <<"N","o","n","e">>
InjectNmi == <<"I","n","j","e","c","t","N","m","i">>
ExitFailure == <<"E","x","i","t","F","a","i","l","u","r","e">>

\* QmpCapability derives Serialize and Deserialize with no rename_all.
QmpCapability ==
  [t |-> "enum", name |-> "QmpCapability", rename_all |-> "none",
   variants |-> <<Oob>>]
WatchdogAction ==
  [t |-> "enum", name |-> "WatchdogAction", rename_all |-> "kebab-case",
   variants |-> <<Reset, Shutdown, Poweroff, Pause, Debug, None, InjectNmi>>]
RebootAction ==
  [t |-> "enum", name |-> "RebootAction", rename_all |-> "kebab-case",
   variants |-> <<Reset, Shutdown>>]
ShutdownAction ==
  [t |-> "enum", name |-> "ShutdownAction", rename_all |-> "kebab-case",
   variants |-> <<Poweroff, Pause>>]
PanicAction ==
  [t |-> "enum", name |-> "PanicAction", rename_all |-> "kebab-case",
   variants |-> <<None, Pause, Shutdown, ExitFailure>>]

VersionTriple ==
  [t |-> "struct", name |-> "VersionTriple",
   fields |-> <<Field("major", "major", TU64, FALSE, FALSE),
                Field("minor", "minor", TU64, FALSE, FALSE),
                Field("micro", "micro", TU64, FALSE, FALSE)>>]
VersionInfo ==
  [t |-> "struct", name |-> "VersionInfo",
   fields |-> <<Field("qemu", "qemu", VersionTriple, FALSE, FALSE),
                Field("package", "package", TString, FALSE, FALSE)>>]
WatchdogSetActionParams ==
  [t |-> "struct", name |-> "WatchdogSetActionParams",
   fields |-> <<Field("action", "action", WatchdogAction, FALSE, FALSE)>>]
SetActionParams ==
  [t |-> "struct", name |-> "SetActionParams",
   fields |-> <<Field("reboot", "reboot", TOption(RebootAction), FALSE, FALSE),
                Field("shutdown", "shutdown", TOption(ShutdownAction), FALSE, FALSE),
                Field("panic", "panic", TOption(PanicAction), FALSE, FALSE),
                Field("watchdog", "watchdog", TOption(WatchdogAction), FALSE, FALSE)>>]

\* ----------------------------------------------------- generic.rs: types
ServerGreeting ==
  [t |-> "struct", name |-> "ServerGreeting",
   fields |-> <<Field("version", "version", VersionInfo, FALSE, FALSE),
                Field("capabilities", "capabilities", TVec(TString), FALSE, FALSE)>>]
\* Command with the skip_serializing_if of id left out.
CommandIdNotSkipped(T, U) ==
  [t |-> "struct", name |-> "Command",
   fields |-> <<Field("execute", "execute", TString, FALSE, FALSE),
                Field("arguments", "arguments", TOption(T), TRUE, FALSE),
                Field("id", "id", TOption(U), FALSE, FALSE)>>]
Command(T, U) ==
  [t |-> "struct", name |-> "Command",
   fields |-> <<Field("execute", "execute", TString, FALSE, FALSE),
                Field("arguments", "arguments", TOption(T), TRUE, FALSE),
                Field("id", "id", TOption(U), TRUE, FALSE)>>]
OobCommand(T, U) ==
  [t |-> "struct", name |-> "OobCommand",
   fields |-> <<Field("exec_oob", "exec-oob", TString, FALSE, FALSE),
                Field("arguments", "arguments", TOption(T), TRUE, FALSE),
                Field("id", "id", TOption(U), TRUE, FALSE)>>]
\* An untagged enum of struct variants, tried in the order written.
ReturnOrError(T) ==
  [t |-> "untagged", name |-> "ReturnOrError",
   variants |-> <<[name |-> "Return",
                   fields |-> <<Field("value", "return", T, FALSE, FALSE)>>],
                  [name |-> "Error",
                   fields |-> <<Field("class", "error", TString, FALSE, FALSE),
                                Field("description", "desc", TString, FALSE, FALSE)>>]>>]
\* Response with the flatten of response left out.
ResponseNotFlattened(T, U) ==
  [t |-> "struct", name |-> "Response",
   fields |-> <<Field("response", "response", ReturnOrError(T), FALSE, FALSE),
                Field("id", "id", U, FALSE, FALSE)>>]
Response(T, U) ==
  [t |-> "struct", name |-> "Response",
   fields |-> <<Field("response", "response", ReturnOrError(T), FALSE, TRUE),
                Field("id", "id", U, FALSE, FALSE)>>]
Timestamp ==
  [t |-> "struct", name |-> "Timestamp",
   fields |-> <<Field("seconds", "seconds", TU64, FALSE, FALSE),
                Field("microseconds", "microseconds", TU64, FALSE, FALSE)>>]
Event(T) ==
  [t |-> "struct", name |-> "Event",
   fields |-> <<Field("event", "event", TString, FALSE, FALSE),
                Field("data", "data", TOption(T), TRUE, FALSE),
                Field("timestamp", "timestamp", Timestamp, FALSE, FALSE)>>]

\* ------------------------------------------------ derived Serialize
\* The token of a unit variant: the identifier, renamed by rename_all.
VariantToken(E, name) ==
  IF E.rename_all = "kebab-case" THEN KebabCase(name) ELSE name

VariantNamed(T, name) ==
  T.variants[CHOOSE i \in 1..Len(T.variants) : T.variants[i].name = name]

RECURSIVE Ser(_, _), SerFields(_, _, _), SerSeq(_, _, _)
\* serde_json::to_value of x : T.
Ser(T, x) ==
  CASE T.t = "unit" -> JNull
    [] T.t = "u64" -> JNum(x.n)
    [] T.t = "String" -> JStr(x.s)
    [] T.t = "Option" -> IF x = VNone THEN JNull ELSE Ser(T.of, x.x)
    [] T.t = "Vec" -> JArr(SerSeq(T.of, x.items, 1))
    [] T.t = "enum" -> JStr(VariantToken(T, x.name))
    [] T.t = "struct" -> JObj(SerFields(T.fields, x.f, 1))
    [] T.t = "untagged" -> JObj(SerFields(VariantNamed(T, x.name).fields, x.f, 1))
SerSeq(T, items, i) ==
  IF i > Len(items) THEN <<>>
  ELSE <<Ser(T, items[i])>> \o SerSeq(T, items, i + 1)
\* The entries a struct's fields put into the enclosing map: a field marked
\* skip_serializing_if is left out when it is None, a flattened field puts
\* its own entries at this level, any other field puts its key.
SerFields(fields, f, i) ==
  IF i > Len(fields) THEN EmptyObj
  ELSE LET fd == fields[i]
           rest == SerFields(fields, f, i + 1)
       IN  IF fd.skip /\ f[fd.rust] = VNone THEN rest
           ELSE IF fd.flatten THEN Ser(fd.ty, f[fd.rust]).o @@ rest
           ELSE (fd.wire :> Ser(fd.ty, f[fd.rust])) @@ rest

\* ---------------------------------------------- derived Deserialize
Fail == [ok |-> FALSE]
Ok(x) == [ok |-> TRUE, val |-> x]

\* What a derived visitor takes for a field whose key is not in the map:
\* None for an Option, an error for anything else.
MissingField(T) == IF T.t = "Option" THEN Ok(VNone) ELSE Fail

\* The keys a struct's own (non-flattened) fields name.
RECURSIVE KnownKeys(_, _)
KnownKeys(fields, i) ==
  IF i > Len(fields) THEN {}
  ELSE (IF fields[i].flatten THEN {} ELSE {fields[i].wire})
       \cup KnownKeys(fields, i + 1)

Restrict(o, keys) == [key \in keys |-> o[key]]

RECURSIVE De(_, _), DeFields(_, _, _, _), DeSeq(_, _, _), DeVariants(_, _, _)
\* serde_json::from_value::<T>(j).
De(T, j) ==
  CASE T.t = "unit" -> IF j.k = "null" THEN Ok(VUnit) ELSE Fail
    [] T.t = "u64" -> IF j.k = "num" /\ j.n >= 0 THEN Ok(VU64(j.n)) ELSE Fail
    [] T.t = "String" -> IF j.k = "str" THEN Ok(VStr(j.s)) ELSE Fail
    [] T.t = "Option" ->
         IF j.k = "null" THEN Ok(VNone)
         ELSE LET r == De(T.of, j) IN IF r.ok THEN Ok(VSome(r.val)) ELSE Fail
    [] T.t = "Vec" ->
         IF j.k # "arr" THEN Fail
         ELSE LET r == DeSeq(T.of, j.a, 1) IN IF r.ok THEN Ok(VVec(r.val)) ELSE Fail
    [] T.t = "enum" ->
         IF j.k = "str" /\ \E i \in 1..Len(T.variants) :
                              VariantToken(T, T.variants[i]) = j.s
         THEN Ok(VVariant(T.variants[CHOOSE i \in 1..Len(T.variants) :
                                       VariantToken(T, T.variants[i]) = j.s]))
         ELSE Fail
    [] T.t = "struct" ->
         IF j.k # "obj" THEN Fail
         ELSE LET r == DeFields(T.fields, j.o, KnownKeys(T.fields, 1), 1)
              IN  IF r.ok THEN Ok(VStruct(r.val)) ELSE Fail
    [] T.t = "untagged" ->
         IF j.k # "obj" THEN Fail ELSE DeVariants(T.variants, j.o, 1)
DeSeq(T, a, i) ==
  IF i > Len(a) THEN Ok(<<>>)
  ELSE LET r == De(T, a[i])
           rest == DeSeq(T, a, i + 1)
       IN  IF r.ok /\ rest.ok THEN Ok(<<r.val>> \o rest.val) ELSE Fail
\* The derived visit_map: a key that names no field is ignored; a flattened
\* field is decoded from the entries the struct's own fields did not take.
DeFields(fields, o, known, i) ==
  IF i > Len(fields) THEN Ok(EmptyObj)
  ELSE LET fd == fields[i]
           r == IF fd.flatten
                THEN De(fd.ty, JObj(Restrict(o, DOMAIN o \ known)))
                ELSE IF fd.wire \in DOMAIN o THEN De(fd.ty, o[fd.wire])
                ELSE MissingField(fd.ty)
           rest == DeFields(fields, o, known, i + 1)
       IN  IF r.ok /\ rest.ok THEN Ok((fd.rust :> r.val) @@ rest.val) ELSE Fail
\* An untagged enum buffers the input and takes the first variant, in the
\* order written, that decodes without error.
DeVariants(variants, o, i) ==
  IF i > Len(variants) THEN Fail
  ELSE LET r == DeFields(variants[i].fields, o, KnownKeys(variants[i].fields, 1), 1)
       IN  IF r.ok THEN Ok(VStructVariant(variants[i].name, r.val))
           ELSE DeVariants(variants, o, i + 1)

\* ------------------------------------------- qmp_monitor.rs: constructors
QueryVersionName == <<"q","u","e","r","y","-","v","e","r","s","i","o","n">>
WatchdogSetActionName ==
  <<"w","a","t","c","h","d","o","g","-","s","e","t","-","a","c","t","i","o","n">>
SetActionName == <<"s","e","t","-","a","c","t","i","o","n">>

\* pub fn query_version() -> Command<(), ()>
query_version ==
  VStruct([execute |-> VStr(QueryVersionName), arguments |-> VNone, id |-> VNone])
\* pub fn watchdog_set_action(value: WatchdogAction)
\*   -> Command<WatchdogSetActionParams, ()>
watchdog_set_action(value) ==
  VStruct([execute |-> VStr(WatchdogSetActionName),
           arguments |-> VSome(VStruct([action |-> value])),
           id |-> VNone])
\* pub fn set_action(params: SetActionParams) -> Command<SetActionParams, ()>
set_action(params) ==
  VStruct([execute |-> VStr(WatchdogSetActionName),
           arguments |-> VSome(params),
           id |-> VNone])

\* ------------------------------------------------------------ the inputs
SampleStrings == {<<"a">>, <<"b">>}
\* The types the envelopes' parameters are instantiated with.
PayloadTypes == {TUnit, TU64, TOption(TUnit), TOption(TU64)}

RECURSIVE Values(_), FieldValues(_, _)
\* The values of type T, within the bounds.
Values(T) ==
  CASE T.t = "unit" -> {VUnit}
    [] T.t = "u64" -> {VU64(n) : n \in 0..MaxNum}
    [] T.t = "String" -> {VStr(s) : s \in SampleStrings}
    [] T.t = "Option" -> {VNone} \cup {VSome(x) : x \in Values(T.of)}
    [] T.t = "Vec" ->
         {VVec(items) : items \in UNION {[1..n -> Values(T.of)] : n \in 0..MaxCaps}}
    [] T.t = "enum" -> {VVariant(T.variants[i]) : i \in 1..Len(T.variants)}
    [] T.t = "struct" -> {VStruct(f) : f \in FieldValues(T.fields, 1)}
    [] T.t = "untagged" ->
         UNION {{VStructVariant(T.variants[i].name, f) :
                   f \in FieldValues(T.variants[i].fields, 1)} :
                i \in 1..Len(T.variants)}
FieldValues(fields, i) ==
  IF i > Len(fields) THEN {EmptyObj}
  ELSE {(fields[i].rust :> x) @@ rest :
          x \in Values(fields[i].ty), rest \in FieldValues(fields, i + 1)}

Enums == {QmpCapability, WatchdogAction, RebootAction, ShutdownAction, PanicAction}
ClosedEnums == {WatchdogAction, RebootAction, ShutdownAction, PanicAction}
Commands == {Command(T, U) : T \in PayloadTypes, U \in PayloadTypes}
OobCommands == {OobCommand(T, U) : T \in PayloadTypes, U \in PayloadTypes}
Responses == {Response(T, U) : T \in PayloadTypes, U \in PayloadTypes}
ReturnOrErrors == {ReturnOrError(T) : T \in PayloadTypes}
Events == {Event(T) : T \in PayloadTypes}
\* The types a value is built of by hand and a message is decoded as.
MessageTypes ==
  Commands \cup OobCommands \cup Responses \cup ReturnOrErrors \cup Events
  \cup {ServerGreeting, Timestamp, VersionInfo} \cup Enums

\* Tokens a peer may send where an enumeration is expected.
LowerOob == <<"o","o","b">>
UnknownToken == <<"x","-","y">>
Tokens ==
  UNION {{E.variants[i] : i \in 1..Len(E.variants)} : E \in Enums}
  \cup UNION {{KebabCase(E.variants[i]) : i \in 1..Len(E.variants)} : E \in Enums}
  \cup {UnknownToken}
GenericError == <<"G","e","n","e","r","i","c","E","r","r","o","r">>
\* Objects over the keys of a response, every subset of them.
ResponseObjects ==
  {JObj([key \in K |->
           CASE key = "return" -> rv
             [] key = "error" -> JStr(GenericError)
             [] key = "desc" -> JStr(<<"a">>)
             [] key = "id" -> JNum(1)]) :
     K \in SUBSET {"return", "error", "desc", "id"}, rv \in {JNull, JNum(0)}}
TimestampObject(s, m) == JObj([seconds |-> JNum(s), microseconds |-> JNum(m)])
EventObjects ==
  {JObj([event |-> JStr(<<"a">>), timestamp |-> TimestampObject(s, m)]) :
     s \in -1..MaxNum, m \in -1..MaxNum}
\* The greeting of the QMP examples, with the capabilities a server may list.
GreetingObject(caps) ==
  JObj([version |->
          JObj([qemu |-> JObj([major |-> JNum(0), minor |-> JNum(11), micro |-> JNum(5)]),
                package |-> JStr(<<>>)]),
        capabilities |-> JArr(caps)])
GreetingObjects ==
  {GreetingObject(caps) : caps \in {<<>>, <<JStr(LowerOob)>>, <<JStr(UnknownToken)>>,
                                    <<JStr(LowerOob), JStr(UnknownToken)>>}}
CommandObjects ==
  {JObj([key \in K |->
           IF key = "execute" THEN JStr(QueryVersionName) ELSE JNull]) :
     K \in {{"execute"}, {"execute", "arguments"}, {"execute", "id"},
            {"execute", "arguments", "id"}}}
\* The JSON texts a peer sends.
ReceivedMessages ==
  ResponseObjects \cup EventObjects \cup GreetingObjects \cup CommandObjects
  \cup {JStr(tok) : tok \in Tokens}

\* ---------------------------------------------------------------- state
VARIABLES
  phase,  \* "idle", "built", "wire" or "decoded"
  ty,     \* the type of val, NoType when there is none
  val,    \* the value built locally, NoVal when there is none
  ctor,   \* what built val: "literal", a constructor's name, or "reply"
  cmd,    \* the command val is the response to (its type and value)
  wire,   \* the JSON on the wire, NoWire when there is none
  dty,    \* the type the wire was decoded as
  res     \* the result of decoding: Ok(value) or Fail
vars == <<phase, ty, val, ctor, cmd, wire, dty, res>>

NoType == [t |-> "none"]
NoVal == [v |-> "none"]
NoCmd == [v |-> "none"]
NoWire == [k |-> "none"]
NoRes == [ok |-> FALSE]

Init ==
  /\ phase = "idle"
  /\ ty = NoType /\ val = NoVal /\ ctor = "none" /\ cmd = NoCmd
  /\ wire = NoWire /\ dty = NoType /\ res = NoRes

\* A value of a public type written as a struct or enum literal.
New ==
  /\ phase = "idle"
  /\ \E T \in MessageTypes : \E x \in Values(T) : ty' = T /\ val' = x
  /\ ctor' = "literal"
  /\ phase' = "built"
  /\ UNCHANGED <<cmd, wire, dty, res>>

CallQueryVersion ==
  /\ phase = "idle"
  /\ ty' = Command(TUnit, TUnit)
  /\ val' = query_version
  /\ ctor' = "query_version"
  /\ phase' = "built"
  /\ UNCHANGED <<cmd, wire, dty, res>>

CallWatchdogSetAction ==
  /\ phase = "idle"
  /\ \E value \in Values(WatchdogAction) : val' = watchdog_set_action(value)
  /\ ty' = Command(WatchdogSetActionParams, TUnit)
  /\ ctor' = "watchdog_set_action"
  /\ phase' = "built"
  /\ UNCHANGED <<cmd, wire, dty, res>>

CallSetAction ==
  /\ phase = "idle"
  /\ \E params \in Values(SetActionParams) : val' = set_action(params)
  /\ ty' = Command(SetActionParams, TUnit)
  /\ ctor' = "set_action"
  /\ phase' = "built"
  /\ UNCHANGED <<cmd, wire, dty, res>>

\* serde_json::to_string(&val)
to_string ==
  /\ phase = "built"
  /\ phase' = "wire"
  /\ wire' = Ser(ty, val)
  /\ UNCHANGED <<ty, val, ctor, cmd, dty, res>>

\* A message arrives from the peer.
Receive ==
  /\ phase = "idle"
  /\ \E j \in ReceivedMessages : wire' = j
  /\ phase' = "wire"
  /\ UNCHANGED <<ty, val, ctor, cmd, dty, res>>

\* serde_json::from_str::<D>(wire): a received message is decoded as any
\* type, a message serialized here as the type it was serialized from.
from_str ==
  /\ phase = "wire"
  /\ \E D \in (IF ty = NoType THEN MessageTypes ELSE {ty}) :
       /\ dty' = D
       /\ res' = De(D, wire)
  /\ phase' = "decoded"
  /\ UNCHANGED <<ty, val, ctor, cmd, wire>>

IsCommand(T) == T.t = "struct" /\ T.name \in {"Command", "OobCommand"}
\* The peer answers the command on the wire: the response carries the
\* command's id, as the id itself when there is one, or as the Option.
Reply ==
  /\ phase = "wire" /\ IsCommand(ty) /\ cmd = NoCmd
  /\ \E V \in PayloadTypes : \E r \in Values(ReturnOrError(V)) :
       LET U == ty.fields[3].ty.of
       IN  \/ /\ ty' = Response(V, TOption(U))
              /\ val' = VStruct([response |-> r, id |-> val.f.id])
           \/ /\ val.f.id # VNone
              /\ ty' = Response(V, U)
              /\ val' = VStruct([response |-> r, id |-> val.f.id.x])
  /\ cmd' = [ty |-> ty, val |-> val]
  /\ ctor' = "reply"
  /\ phase' = "built"
  /\ wire' = NoWire
  /\ UNCHANGED <<dty, res>>

\* The values are dropped; the next call starts afresh.
Drop ==
  /\ phase = "decoded"
  /\ phase' = "idle"
  /\ ty' = NoType /\ val' = NoVal /\ ctor' = "none" /\ cmd' = NoCmd
  /\ wire' = NoWire /\ dty' = NoType /\ res' = NoRes

Next ==
  \/ New
  \/ CallQueryVersion
  \/ CallWatchdogSetAction
  \/ CallSetAction
  \/ to_string
  \/ Receive
  \/ from_str
  \/ Reply
  \/ Drop

Spec == Init /\ [][Next]_vars

\* =============================================================== claims
Serialized == phase \in {"wire", "decoded"} /\ ty # NoType
RoundTripped == phase = "decoded" /\ ty # NoType
ReceivedAndDecoded == phase = "decoded" /\ ty = NoType
IsStruct(T, names) == T.t = "struct" /\ T.name \in names
Envelopes == {"Command", "OobCommand", "Response", "Event", "ServerGreeting"}

\* C1: for every envelope type and every value x of it, decoding the JSON
\* that encoding x produced succeeds and yields a value equal to x; this
\* includes a present optional field whose payload encodes to null.
C1_RoundTrip ==
  (RoundTripped /\ IsStruct(ty, Envelopes)) => (res.ok /\ res.val = val)

\* C2: a Command, OobCommand or Event puts no key on the wire for an
\* optional field (arguments, id, data) that is absent, and a Command with
\* arguments and id both absent is an object whose only key is execute.
C2_AbsentFieldsOmitted ==
  (Serialized /\ IsStruct(ty, {"Command", "OobCommand", "Event"})) =>
    /\ wire.k = "obj"
    /\ \A key \in {"arguments", "id", "data"} :
         (key \in DOMAIN val.f /\ val.f[key] = VNone) => key \notin Keys(wire)
    /\ (ty.name = "Command" /\ val.f.arguments = VNone /\ val.f.id = VNone)
         => Keys(wire) = {"execute"}
\* query_version() serialized: {"execute":"query-version"}.
C2_Witness ==
  /\ phase = "wire" /\ ctor = "query_version"
  /\ val.f.arguments = VNone /\ val.f.id = VNone
  /\ wire = JObj([execute |-> JStr(QueryVersionName)])

ValueTypeOf(R) == R.fields[1].ty.variants[1].fields[1].ty
IdTypeOf(R) == R.fields[2].ty
\* C3: a response object with keys return and id alone decodes to Return
\* carrying the return value, and one with keys error, desc and id alone
\* decodes to Error with class the error string and description the desc
\* string (the values being of the types the Response is instantiated with).
C3_VariantByKeys ==
  (ReceivedAndDecoded /\ dty \in Responses /\ wire \in ResponseObjects
     /\ "id" \in Keys(wire) /\ De(IdTypeOf(dty), wire.o.id).ok) =>
    /\ (Keys(wire) = {"return", "id"} /\ De(ValueTypeOf(dty), wire.o.return).ok)
         => /\ res.ok
            /\ res.val.f.response =
                 VStructVariant("Return",
                   [value |-> De(ValueTypeOf(dty), wire.o.return).val])
    /\ Keys(wire) = {"error", "desc", "id"}
         => /\ res.ok
            /\ res.val.f.response =
                 VStructVariant("Error",
                   [class |-> VStr(wire.o.error.s),
                    description |-> VStr(wire.o.desc.s)])

ShapeKeys(j) == Keys(j) \cap {"return", "error", "desc"}
\* C4: decoding a ReturnOrError fails for an object with return together
\* with error or desc, with none of the three keys, with error alone and
\* with desc alone, whatever the value type.
C4_OtherShapesRejected ==
  (ReceivedAndDecoded /\ dty \in ReturnOrErrors /\ wire \in ResponseObjects
     /\ ShapeKeys(wire) \notin {{"return"}, {"error", "desc"}}) => ~res.ok

\* C5: query_version() has execute "query-version" and no arguments,
\* watchdog_set_action(a) has execute "watchdog-set-action" and arguments
\* {action: a}, set_action(p) has execute "set-action" and arguments p;
\* none of them has an id.
C5_Constructors ==
  /\ (phase = "built" /\ ctor = "query_version") =>
       /\ val.f.execute = VStr(QueryVersionName)
       /\ val.f.arguments = VNone
       /\ val.f.id = VNone
  /\ (phase = "built" /\ ctor = "watchdog_set_action") =>
       /\ val.f.execute = VStr(WatchdogSetActionName)
       /\ val.f.arguments.v = "Some"
       /\ DOMAIN val.f.arguments.x.f = {"action"}
       /\ val.f.arguments.x.f.action \in Values(WatchdogAction)
       /\ val.f.id = VNone
  /\ (phase = "built" /\ ctor = "set_action") =>
       /\ val.f.execute = VStr(SetActionName)
       /\ val.f.arguments.v = "Some"
       /\ val.f.arguments.x \in Values(SetActionParams)
       /\ val.f.id = VNone

TokensOf(E) == {KebabCase(E.variants[i]) : i \in 1..Len(E.variants)}
\* C6: every variant of the five enumerations serializes to the kebab-case
\* form of its name (inject-nmi, exit-failure, oob) and that token decodes
\* to the same variant; a string outside the tokens of a closed enumeration
\* fails to decode.
C6_KebabTokens ==
  /\ (RoundTripped /\ ty.t = "enum") =>
       /\ wire = JStr(KebabCase(val.name))
       /\ val.name = InjectNmi =>
            wire = JStr(<<"i","n","j","e","c","t","-","n","m","i">>)
       /\ val.name = ExitFailure =>
            wire = JStr(<<"e","x","i","t","-","f","a","i","l","u","r","e">>)
       /\ val.name = Oob => wire = JStr(<<"o","o","b">>)
       /\ res = Ok(val)
  /\ (ReceivedAndDecoded /\ dty \in ClosedEnums /\ wire.k = "str"
        /\ wire.s \notin TokensOf(dty)) => ~res.ok

\* C7: a string that is no known capability name decodes as a
\* QmpCapability, and a greeting whose capabilities hold it decodes as a
\* ServerGreeting that holds it: neither is a parse error.
C7_UnknownCapabilityAccepted ==
  /\ (ReceivedAndDecoded /\ dty = QmpCapability /\ wire = JStr(UnknownToken))
       => res.ok
  /\ (ReceivedAndDecoded /\ dty = ServerGreeting /\ wire \in GreetingObjects
        /\ \E i \in 1..Len(wire.o.capabilities.a) :
             wire.o.capabilities.a[i] = JStr(UnknownToken))
       => /\ res.ok
          /\ \E i \in 1..Len(res.val.f.capabilities.items) :
               res.val.f.capabilities.items[i] = VStr(UnknownToken)

\* C8: the serialized response to a command has an id key exactly when the
\* command carried an id, and then with the same value.
C8_IdIffCommandId ==
  (Serialized /\ ctor = "reply") =>
    LET sent == Ser(cmd.ty, cmd.val)
    IN  /\ HasKey(wire, "id") <=> HasKey(sent, "id")
        /\ HasKey(sent, "id") => wire.o.id = sent.o.id

\* C9: a serialized Response is one flat object that has, beside id, either
\* the key return or both keys error and desc: never both shapes, never
\* neither, never a nested response object.
C9_OneFlatShape ==
  (Serialized /\ IsStruct(ty, {"Response"})) =>
    /\ wire.k = "obj"
    /\ "id" \in Keys(wire)
    /\ "response" \notin Keys(wire)
    /\ ShapeKeys(wire) \in {{"return"}, {"error", "desc"}}
    /\ ShapeKeys(wire) = {"return"} <=> val.f.response.name = "Return"
\* An error response to a command, serialized.
C9_Witness ==
  /\ phase = "wire" /\ ctor = "reply"
  /\ val.f.response.name = "Error"
  /\ Keys(wire) = {"error", "desc", "id"}

\* C10: an event whose timestamp is {seconds: -1, microseconds: -1}
\* decodes, to a value that differs from the one {seconds: 0,
\* microseconds: 0} decodes to and from that of every other pair of
\* non-negative numbers.
C10_SentinelTimestamp ==
  (ReceivedAndDecoded /\ dty \in Events /\ wire \in EventObjects
     /\ wire.o.timestamp = TimestampObject(-1, -1)) =>
    /\ res.ok
    /\ \A s \in 0..MaxNum, m \in 0..MaxNum :
         res.val.f.timestamp # De(Timestamp, TimestampObject(s, m)).val

====
